---------------------------- MODULE Spec2Model ----------------------------
(***************************************************************************)
(* deno_jxa: a synchronous session (foreground thread) drives a worker     *)
(* (background context) that owns an `osascript -i` child behind a PTY.    *)
(*                                                                         *)
(* Strings are sequences of tokens.  A token is a TLA+ string standing for *)
(* that very text (">> " is the three characters of the prompt marker),    *)
(* except for the named tokens below, which stand for text that cannot be  *)
(* written out here: a line feed, U+0000, a two-byte character and two     *)
(* long runs of ASCII.                                                     *)
(*                                                                         *)
(* Spec steps one session's bridge store by store.  ProxySpec is the       *)
(* handle layer over two sessions; there a call through the bridge is one  *)
(* step, the caller being blocked for the whole of it.                     *)
(***************************************************************************)
EXTENDS Integers, Sequences, FiniteSets, TLC

\* ------------------------------------------------------------------ bounds
MaxCalls == 3

\* ------------------------------------------------------- program constants
RESULT_BUFFER_SIZE == 16000
MarkerLen == 3

\* ------------------------------------------------------------ string model
LF == "LF"
NUL == "NUL"
EAcute == "U+00E9"
Run8000 == "x*8000"
Run7999 == "x*7999"
SP == " "

PROMPT == ">> "
OKMARK == "=> "
ERRMARK == "!! "

\* UTF-16 code units of a token: what String.prototype.length/slice count.
CharLen(tok) ==
  CASE tok = LF -> 1
    [] tok = NUL -> 1
    [] tok = EAcute -> 1
    [] tok = Run8000 -> 8000
    [] tok = Run7999 -> 7999
    [] OTHER -> Len(tok)

\* Bytes TextEncoder.encode produces for a token.
Utf8Len(tok) ==
  CASE tok = LF -> 1
    [] tok = NUL -> 1
    [] tok = EAcute -> 2
    [] tok = Run8000 -> 8000
    [] tok = Run7999 -> 7999
    [] OTHER -> Len(tok)

RECURSIVE SumLen(_, _)
SumLen(s, byteWise) ==
  IF s = <<>> THEN 0
  ELSE (IF byteWise THEN Utf8Len(Head(s)) ELSE CharLen(Head(s)))
       + SumLen(Tail(s), byteWise)

\* encoded.length of encoder.encode(s)
EncodedLength(s) == SumLen(s, TRUE)

\* s.length
StrLength(s) == SumLen(s, FALSE)

\* line.startsWith(marker)
StartsWith(line, marker) == line # <<>> /\ Head(line) = marker

\* line.slice(n), for n falling on a token boundary
RECURSIVE Slice(_, _)
Slice(line, n) ==
  IF n <= 0 \/ line = <<>> THEN line
  ELSE Slice(Tail(line), n - CharLen(Head(line)))

IsSpace(tok) == tok = SP \/ tok = LF

RECURSIVE TrimStart(_)
TrimStart(s) ==
  IF s # <<>> /\ IsSpace(Head(s)) THEN TrimStart(Tail(s)) ELSE s

RECURSIVE TrimEnd(_)
TrimEnd(s) ==
  IF s # <<>> /\ IsSpace(s[Len(s)])
  THEN TrimEnd(SubSeq(s, 1, Len(s) - 1)) ELSE s

\* code.trim()
Trim(s) == TrimEnd(TrimStart(s))

\* s.includes(tok)
Includes(s, tok) == \E i \in 1..Len(s) : s[i] = tok

\* ---------------------------------------------------------- error taxonomy
\* An error value: its class name, its message and, for ReplExecutionError,
\* the public `error` field.
MultiLineCodeError ==
  [name |-> "MultiLineCodeError",
   message |-> <<"Multi-line code is not supported">>, error |-> <<>>]

StreamEndedError ==
  [name |-> "StreamEndedError",
   message |-> <<"Stream ended unexpectedly">>, error |-> <<>>]

ReplExecutionError(error) ==
  [name |-> "ReplExecutionError",
   message |-> <<"REPL execution error: ">> \o error, error |-> error]

BufferOverflowError(message) ==
  [name |-> "BufferOverflowError", message |-> message, error |-> <<>>]

\* new Error(message), and the TypeError a closed stream rejects with
PlainError(message) == [name |-> "Error", message |-> message, error |-> <<>>]

JXAErrorNames ==
  {"MultiLineCodeError", "StreamEndedError", "ReplExecutionError",
   "BufferOverflowError", "NotSerializableError"}

\* ------------------------------------------------------ error wire format
JsonOpen == "{\"type\":\""
JsonSep == "\",\"message\":\""
JsonClose == "\"}"
EscLF == "\\n"
EscNUL == "\\u0000"

\* JSON.stringify of the characters of a string value
RECURSIVE JsonEscape(_)
JsonEscape(s) ==
  IF s = <<>> THEN <<>>
  ELSE <<(CASE Head(s) = LF -> EscLF [] Head(s) = NUL -> EscNUL
            [] OTHER -> Head(s))>> \o JsonEscape(Tail(s))

RECURSIVE JsonUnescape(_)
JsonUnescape(s) ==
  IF s = <<>> THEN <<>>
  ELSE <<(CASE Head(s) = EscLF -> LF [] Head(s) = EscNUL -> NUL
            [] OTHER -> Head(s))>> \o JsonUnescape(Tail(s))

\* JSON.stringify({ type, message })
JsonStringify(type, message) ==
  <<JsonOpen, type, JsonSep>> \o JsonEscape(message) \o <<JsonClose>>

\* JSON.parse(result) as { type, message }; ok = FALSE when it throws
JsonParse(s) ==
  IF Len(s) >= 4 /\ s[1] = JsonOpen /\ s[3] = JsonSep /\ s[Len(s)] = JsonClose
  THEN [ok |-> TRUE, type |-> s[2],
        message |-> JsonUnescape(SubSeq(s, 4, Len(s) - 1))]
  ELSE [ok |-> FALSE, type |-> "", message |-> <<>>]

\* ------------------------------------------ worker: encoding the response
\* Outcome of the try body: a returned string or a thrown error.
Returned(text) == [thrown |-> FALSE, text |-> text, err |-> PlainError(<<>>)]
Thrown(err) == [thrown |-> TRUE, text |-> <<>>, err |-> err]

OverflowMessage(n) ==
  <<"Message length (", ToString(n), " bytes) exceeds buffer size (",
    ToString(RESULT_BUFFER_SIZE), " bytes)">>

FallbackMessage(n) ==
  <<"Error message length (", ToString(n), " bytes) exceeds buffer size (",
    ToString(RESULT_BUFFER_SIZE), " bytes)">>

\* The length the size check compares with RESULT_BUFFER_SIZE.
CheckedLength(s) == EncodedLength(s)

\* try body after the bridge call returned `text`: the size check
AfterResult(text) ==
  IF CheckedLength(text) >= RESULT_BUFFER_SIZE
  THEN Thrown(BufferOverflowError(OverflowMessage(CheckedLength(text))))
  ELSE Returned(text)

\* catch block: the instanceof chain choosing the serialized type
ErrorType(err) ==
  IF err.name \in {"MultiLineCodeError", "ReplExecutionError",
                   "BufferOverflowError"}
  THEN err.name ELSE "Error"

ErrorJson(err) == JsonStringify(ErrorType(err), err.message)

\* As ErrorPayload, but without the substitute for an oversized report.
ErrorPayloadNoFallback(err) == ErrorJson(err)

\* catch block: the payload written for a thrown error
ErrorPayload(err) ==
  IF CheckedLength(ErrorJson(err)) >= RESULT_BUFFER_SIZE
  THEN JsonStringify("BufferOverflowError",
                     FallbackMessage(CheckedLength(ErrorJson(err))))
  ELSE ErrorJson(err)

\* The bytes written at offset 8 (a terminating 0 follows) and the status.
Response(out) ==
  LET o == IF out.thrown THEN out ELSE AfterResult(out.text) IN
  IF o.thrown THEN [status |-> 2, payload |-> ErrorPayload(o.err)]
  ELSE [status |-> 1, payload |-> o.text]

\* ---------------------------------------- foreground: decoding the region
\* The scan for the first zero byte of the payload segment.
RECURSIVE UpToTerminator(_)
UpToTerminator(buf) ==
  IF buf = <<>> \/ Head(buf) = NUL THEN <<>>
  ELSE <<Head(buf)>> \o UpToTerminator(Tail(buf))

\* Outcome of #sendMessage at the caller.
Reconstruct(errorData) ==
  CASE errorData.type = "MultiLineCodeError" -> MultiLineCodeError
    [] errorData.type = "ReplExecutionError" ->
         ReplExecutionError(errorData.message)
    [] errorData.type = "BufferOverflowError" ->
         BufferOverflowError(errorData.message)
    [] OTHER -> PlainError(errorData.message)

Decode(status, buf) ==
  LET result == UpToTerminator(buf) IN
  IF status = 2
  THEN IF JsonParse(result).ok THEN Thrown(Reconstruct(JsonParse(result)))
       ELSE Thrown(PlainError(result))
  ELSE Returned(result)

\* ------------------------------------------------- the interpreter's output
\* TextLineStream: the lines of a chunk of output, split at line feeds.
RECURSIVE SplitLines(_, _)
SplitLines(s, cur) ==
  IF s = <<>> THEN <<cur>>
  ELSE IF Head(s) = LF THEN <<cur>> \o SplitLines(Tail(s), <<>>)
  ELSE SplitLines(Tail(s), Append(cur, Head(s)))

\* The first line of the child's input and what follows its line feed.
RECURSIVE FirstLine(_)
FirstLine(s) ==
  IF s = <<>> \/ Head(s) = LF THEN <<>>
  ELSE <<Head(s)>> \o FirstLine(Tail(s))

RECURSIVE AfterFirstLine(_)
AfterFirstLine(s) ==
  IF s = <<>> THEN <<>>
  ELSE IF Head(s) = LF THEN Tail(s) ELSE AfterFirstLine(Tail(s))

\* The value a statement evaluates to, in the interpreter's textual form:
\* a literal prints as itself, a declaration as undefined.
Value(stmt) ==
  IF StartsWith(stmt, "const") THEN <<"undefined">> ELSE stmt

Shapes == 1..8

\* Textual forms the interpreter may print for a value: one line, several
\* lines, lines that themselves begin with a marker, a U+0000, and forms
\* just below, at and above the response capacity.
Body(shape, stmt) ==
  CASE shape = 1 -> Value(stmt)
    [] shape = 2 -> Value(stmt) \o <<LF, "b", LF, "c">>
    [] shape = 3 -> Value(stmt) \o <<LF, PROMPT, "b", LF, OKMARK, "c">>
    [] shape = 4 -> Value(stmt) \o <<LF, OKMARK, "b">>
    [] shape = 5 -> Value(stmt) \o <<NUL, "b">>
    [] shape = 6 -> <<Run7999, Run7999>> \o Value(stmt)
    [] shape = 7 -> <<Run8000, Run8000>>
    [] OTHER -> <<Run7999, Run7999, EAcute>>

IsMarked(line) ==
  StartsWith(line, PROMPT) \/ StartsWith(line, OKMARK)
    \/ StartsWith(line, ERRMARK)

\* Section 6 of the line protocol: a result continues over non-prefixed lines.
Conforming(text) ==
  \A i \in 2..Len(SplitLines(text, <<>>)) :
     ~IsMarked(SplitLines(text, <<>>)[i])

Kinds == {"ok", "err", "none"}

\* Everything the child prints for one submission `stmt LF LF`: the echo of
\* the statement (after the prompt), optionally the echoed blank line and
\* console chatter, the marked result with its continuation lines,
\* optionally the result of the blank submission, and the next prompt line.
Transcript(stmt, kind, shape, chatter, blankResult) ==
  << <<PROMPT>> \o stmt >>
  \o (IF chatter THEN << <<>>, <<"hi">> >> ELSE <<>>)
  \o (CASE kind = "ok" -> SplitLines(<<OKMARK>> \o Body(shape, stmt), <<>>)
        [] kind = "err" -> SplitLines(<<ERRMARK>> \o Body(shape, stmt), <<>>)
        [] OTHER -> <<>>)
  \o (IF blankResult THEN << <<OKMARK, "undefined">> >> ELSE <<>>)
  \o << <<PROMPT>> >>

\* ------------------------------------------------------------------- state
VARIABLES
  fpc,          \* foreground: "idle", "posted", "blocked", "decode"
  freq,         \* the request of the call in progress (or of the last call)
  fres,         \* outcome of the last completed call at the caller
  nCalls,       \* calls issued so far; also the identity of the last region
  terminated,   \* worker.terminate() has been called
  sab,          \* the response region of the call in progress
  inbox,        \* messages posted to the worker and not yet delivered
  wpc,          \* worker: position inside onmessage
  wreq,         \* the message being handled
  result,       \* execute's `result`: <<>> is null, <<s>> the string s
  isError,      \* execute's `isError`
  wout,         \* outcome of the bridge call in the try body
  varCounter,   \* #varCounter
  readerReleased, \* #lineReader.releaseLock() has run
  writerClosed, \* #writer.close() has run
  stdin,        \* characters written to the child and not yet read by it
  stdout,       \* lines printed by the child and not yet read
  eof,          \* the child has exited: its output stream has ended
  prod,         \* history: what the child printed for the last submission
  conform,      \* history: every textual form printed so far was conforming
  wrote,        \* history: the call in progress has written to stdin
  prev,         \* history: how the previous call ended at the caller
  nDone,        \* history: stores to the done flag while handling wreq
  minted,       \* history: the names createVar has minted, in order
  nDispose,     \* history: calls of [Symbol.dispose] issued so far
  remote,       \* handle layer: per session, its bridge and its interpreter
  handles,      \* handle layer: the handles created so far, in order
  last,         \* handle layer: the last call of the API and its outcome
  nOps          \* handle layer: calls of the API made so far

\* The variables of one session's bridge, stepped through store by store.
bvars ==
  <<fpc, freq, fres, nCalls, terminated, sab, inbox, wpc, wreq, result,
    isError, wout, varCounter, readerReleased, writerClosed, stdin, stdout,
    eof, prod, conform, wrote, prev, nDone, minted, nDispose>>

\* The variables of the handle layer over two sessions.
pvars == <<remote, handles, last, nOps>>

vars == <<bvars, pvars>>

fvars == <<fpc, freq, fres, nCalls, terminated, prev>>
wvars == <<wpc, wreq, result, isError, wout, varCounter, readerReleased,
           writerClosed, nDone>>
cvars == <<stdin, stdout, eof, prod, conform>>
hvars == <<minted, nDispose>>

\* ------------------------------------------------------------------ inputs
\* Code strings a caller passes: single-line statements, one that needs
\* trimming, one with an inner line feed, and one that trims to nothing.
CodeInputs ==
  { <<SP, "1", LF>>, <<"2">>, <<"1", LF, "2">>, <<LF>> }

NoRequest == [type |-> "", data |-> <<>>, sab |-> 0]

\* Two sessions, each with a worker and an interpreter of its own.
Sessions == {"A", "B"}

\* A session after `new JXASession()`: the worker's counter at 0, no line
\* of output unread, nothing declared in the interpreter.
FreshSession ==
  [varCounter |-> 0, unread |-> <<>>, bound |-> {},
   conform |-> TRUE]

\* No call of the API made yet.
NoCall ==
  [op |-> "none", session |-> "", arg |-> <<>>, sent |-> <<>>,
   out |-> <<>>, bridge |-> <<>>]
Pending == [thrown |-> FALSE, text |-> <<"<pending>">>, err |-> PlainError(<<>>)]
FreshRegion(id) ==
  [id |-> id, done |-> 0, status |-> 0, payload |-> <<>>, written |-> FALSE]

Init ==
  /\ fpc = "idle" /\ freq = NoRequest /\ fres = Pending /\ nCalls = 0
  /\ terminated = FALSE
  /\ sab = FreshRegion(0)
  /\ inbox = <<>>
  /\ wpc = "idle" /\ wreq = NoRequest /\ result = <<>> /\ isError = FALSE
  /\ wout = Pending /\ varCounter = 0
  /\ readerReleased = FALSE /\ writerClosed = FALSE
  /\ stdin = <<>> /\ stdout = <<>> /\ eof = FALSE
  /\ prod = <<>> /\ conform = TRUE /\ wrote = FALSE /\ prev = "none"
  /\ nDone = 0
  /\ minted = <<>> /\ nDispose = 0
  /\ remote = [s \in Sessions |-> FreshSession]
  /\ handles = <<>> /\ last = NoCall /\ nOps = 0

\* -------------------------------------------------------------- foreground
OutcomeName(o) ==
  IF o = Pending THEN "none" ELSE IF o.thrown THEN o.err.name ELSE "ok"

\* #sendMessage up to postMessage: a fresh region with the flag stored as 0,
\* then the message.  A message posted to a terminated worker goes nowhere.
Send(type, data) ==
  /\ fpc = "idle"
  /\ nCalls < MaxCalls
  /\ nCalls' = nCalls + 1
  /\ sab' = FreshRegion(nCalls + 1)
  /\ freq' = [type |-> type, data |-> data, sab |-> nCalls + 1]
  /\ inbox' = IF terminated THEN inbox ELSE Append(inbox, freq')
  /\ fpc' = "posted"
  /\ fres' = Pending
  /\ prev' = OutcomeName(fres)
  /\ wrote' = FALSE
  /\ prod' = <<>>
  /\ nDispose' = IF type = "dispose" THEN nDispose + 1 ELSE nDispose
  /\ UNCHANGED <<terminated, wvars, stdin, stdout, eof, conform, minted>>
  /\ UNCHANGED pvars

\* unsafeExecute(code)
UnsafeExecute == \E code \in CodeInputs : Send("execute", code)

\* #createVar(expression), reached from wrap, property reads and calls
CreateVar == \E expression \in CodeInputs : Send("createVar", expression)

\* [Symbol.dispose]() up to its #sendMessage
Dispose == Send("dispose", <<>>)

\* #sendMessage with a type the worker does not know
SendOther == Send("other", <<>>)

\* As Wait, but returning without the flag having been set.
WaitReturnsEarly ==
  /\ fpc = "posted"
  /\ fpc' = "decode"
  /\ UNCHANGED <<freq, fres, nCalls, terminated, prev, sab, inbox, wvars,
                 cvars, wrote>>
  /\ UNCHANGED hvars
  /\ UNCHANGED pvars

\* Atomics.wait(int32, 0, 0): returns at once unless the flag is still 0
Wait ==
  /\ fpc = "posted"
  /\ fpc' = IF sab.done # 0 THEN "decode" ELSE "blocked"
  /\ UNCHANGED <<freq, fres, nCalls, terminated, prev, sab, inbox, wvars,
                 cvars, wrote>>
  /\ UNCHANGED hvars
  /\ UNCHANGED pvars

\* #sendMessage after the wait: status, terminator scan, decode, rethrow;
\* and, in [Symbol.dispose], worker.terminate() once #sendMessage returned
Finish ==
  /\ fpc = "decode"
  /\ fres' = Decode(sab.status, sab.payload)
  /\ fpc' = "idle"
  /\ terminated' = (terminated \/ (freq.type = "dispose" /\ ~fres'.thrown))
  /\ UNCHANGED <<freq, nCalls, prev, sab, inbox, wvars, cvars, wrote>>
  /\ UNCHANGED hvars
  /\ UNCHANGED pvars

\* ------------------------------------------------------------------ worker
\* As VarName, but with the counter taken modulo two.
VarNameModulo(n) == "$" \o ToString(n % 2)

VarName(n) == "$" \o ToString(n)

\* The statement createVar hands to execute.
Declaration(varName, expression) ==
  <<"const", SP, varName, SP, "=", SP>> \o expression

\* execute, lines 51-60: the guard, then the write of the statement and the
\* blank line.  A write rejects once the writer is closed, and may reject
\* once the child is gone.
\* As BeginExecute, without the guard on a line feed in the trimmed code.
BeginExecuteUnguarded(code) ==
  /\ ~writerClosed
  /\ stdin' = IF eof THEN stdin ELSE stdin \o Trim(code) \o <<LF, LF>>
  /\ wrote' = TRUE
  /\ result' = <<>>
  /\ isError' = FALSE
  /\ wpc' = "read"
  /\ wout' = Pending
  /\ UNCHANGED prod

BeginExecute(code) ==
  LET trimmedCode == Trim(code) IN
  IF Includes(trimmedCode, LF)
  THEN /\ wout' = Thrown(MultiLineCodeError)
       /\ wpc' = "encode"
       /\ UNCHANGED <<result, isError, stdin, prod, wrote>>
  ELSE \/ /\ ~writerClosed
          /\ stdin' = IF eof THEN stdin
                       ELSE stdin \o trimmedCode \o <<LF, LF>>
          /\ wrote' = TRUE
          /\ UNCHANGED prod
          /\ result' = <<>>
          /\ isError' = FALSE
          /\ wpc' = "read"
          /\ wout' = Pending
       \/ /\ writerClosed \/ eof
          /\ wout' = Thrown(PlainError(<<"The stream is closed or errored">>))
          /\ wpc' = "encode"
          /\ UNCHANGED <<result, isError, stdin, prod, wrote>>

\* onmessage, lines 127-144: take the next message and dispatch on its type
Receive ==
  /\ ~terminated
  /\ wpc = "idle"
  /\ inbox # <<>>
  /\ wreq' = Head(inbox)
  /\ inbox' = Tail(inbox)
  /\ nDone' = 0
  /\ CASE Head(inbox).type = "execute" ->
            /\ BeginExecute(Head(inbox).data)
            /\ UNCHANGED varCounter
       [] Head(inbox).type = "createVar" ->
            /\ varCounter' = varCounter + 1
            /\ BeginExecute(Declaration(VarName(varCounter),
                                        Head(inbox).data))
       [] Head(inbox).type = "dispose" ->
            /\ wpc' = "release"
            /\ wout' = Pending
            /\ UNCHANGED <<varCounter, result, isError, stdin, prod, wrote>>
       [] OTHER ->
            /\ wout' = Thrown(PlainError(<<"Unknown message type: ",
                                           Head(inbox).type>>))
            /\ wpc' = "encode"
            /\ UNCHANGED <<varCounter, result, isError, stdin, prod, wrote>>
  /\ minted' = IF Head(inbox).type = "createVar"
               THEN Append(minted, VarName(varCounter)) ELSE minted
  /\ UNCHANGED <<fvars, sab, readerReleased, writerClosed, stdout, eof,
                 conform, nDispose>>
  /\ UNCHANGED pvars

\* One iteration of execute's loop on a line that was read, lines 66-113:
\* the new result and isError, and whether the loop goes on.
Continue(res, isErr) == [result |-> res, isError |-> isErr, end |-> "continue"]

\* As LineStep, but the call ends on the result line itself, without
\* draining what the child prints up to the next prompt.
LineStepEager(res, isErr, line) ==
  IF res = <<>> /\ StartsWith(line, OKMARK)
  THEN [result |-> <<Slice(line, MarkerLen)>>, isError |-> FALSE,
        end |-> "return"]
  ELSE IF res = <<>> /\ StartsWith(line, ERRMARK)
  THEN [result |-> <<Slice(line, MarkerLen)>>, isError |-> TRUE,
        end |-> "throw"]
  ELSE Continue(res, isErr)

\* As LineStep, but a line that follows the result line is not appended.
LineStepNoContinuation(res, isErr, line) ==
  IF res = <<>> /\ StartsWith(line, OKMARK)
  THEN Continue(<<Slice(line, MarkerLen)>>, FALSE)
  ELSE IF res = <<>> /\ StartsWith(line, ERRMARK)
  THEN Continue(<<Slice(line, MarkerLen)>>, TRUE)
  ELSE IF StartsWith(line, PROMPT) /\ res # <<>>
  THEN [result |-> res, isError |-> isErr,
        end |-> IF isErr THEN "throw" ELSE "return"]
  ELSE Continue(res, isErr)

\* As LineStep, but every unmarked line counts as a continuation, also
\* before a result line was seen.
LineStepChatterCaptured(res, isErr, line) ==
  IF StartsWith(line, OKMARK)
  THEN IF res = <<>> THEN Continue(<<Slice(line, MarkerLen)>>, FALSE)
       ELSE Continue(res, isErr)
  ELSE IF StartsWith(line, ERRMARK)
  THEN IF res = <<>> THEN Continue(<<Slice(line, MarkerLen)>>, TRUE)
       ELSE Continue(res, isErr)
  ELSE IF StartsWith(line, PROMPT)
  THEN IF res = <<>> THEN Continue(res, isErr)
       ELSE [result |-> res, isError |-> isErr,
             end |-> IF isErr THEN "throw" ELSE "return"]
  ELSE IF res = <<>> THEN Continue(<<line>>, isErr)
  ELSE Continue(<<res[1] \o <<LF>> \o line>>, isErr)

\* As LineStep, but an error line ends the call at once.
LineStepThrowAtErrorLine(res, isErr, line) ==
  IF res = <<>> /\ StartsWith(line, ERRMARK)
  THEN [result |-> <<Slice(line, MarkerLen)>>, isError |-> TRUE,
        end |-> "throw"]
  ELSE IF res = <<>> /\ StartsWith(line, OKMARK)
  THEN Continue(<<Slice(line, MarkerLen)>>, FALSE)
  ELSE IF StartsWith(line, PROMPT) /\ res # <<>>
  THEN [result |-> res, isError |-> isErr, end |-> "return"]
  ELSE IF res # <<>> /\ ~StartsWith(line, OKMARK)
                     /\ ~StartsWith(line, ERRMARK)
  THEN Continue(<<res[1] \o <<LF>> \o line>>, isErr)
  ELSE Continue(res, isErr)

LineStep(res, isErr, line) ==
  IF res = <<>> /\ StartsWith(line, PROMPT) THEN Continue(res, isErr)
  ELSE IF res = <<>> /\ ~StartsWith(line, OKMARK)
                     /\ ~StartsWith(line, ERRMARK)
  THEN Continue(res, isErr)
  ELSE IF StartsWith(line, OKMARK)
  THEN IF res = <<>> THEN Continue(<<Slice(line, MarkerLen)>>, FALSE)
       ELSE Continue(res, isErr)
  ELSE IF StartsWith(line, ERRMARK)
  THEN IF res = <<>> THEN Continue(<<Slice(line, MarkerLen)>>, TRUE)
       ELSE Continue(res, isErr)
  ELSE IF StartsWith(line, PROMPT) /\ res # <<>>
  THEN [result |-> res, isError |-> isErr,
        end |-> IF isErr THEN "throw" ELSE "return"]
  ELSE IF res # <<>>
  THEN Continue(<<res[1] \o <<LF>> \o line>>, isErr)
  ELSE Continue(res, isErr)

\* execute, lines 62-114: one awaited read and what the loop does with it;
\* when execute returns inside createVar, createVar returns the name it
\* minted (line 47), not the text execute captured
ReadLine ==
  /\ ~terminated
  /\ wpc = "read"
  /\ IF readerReleased
     THEN /\ wout' = Thrown(PlainError(<<"Reader has no associated stream">>))
          /\ wpc' = "encode"
          /\ result' = <<>>
          /\ isError' = FALSE
          /\ UNCHANGED stdout
     ELSE IF stdout # <<>>
     THEN LET s == LineStep(result, isError, Head(stdout)) IN
          /\ stdout' = Tail(stdout)
          /\ result' = IF s.end = "continue" THEN s.result ELSE <<>>
          /\ isError' = (s.end = "continue" /\ s.isError)
          /\ wpc' = IF s.end = "continue" THEN "read" ELSE "encode"
          /\ wout' = CASE s.end = "return" ->
                            IF wreq.type = "createVar"
                            THEN Returned(<<VarName(varCounter - 1)>>)
                            ELSE Returned(s.result[1])
                       [] s.end = "throw" ->
                            Thrown(ReplExecutionError(s.result[1]))
                       [] OTHER -> wout
     ELSE /\ eof
          /\ wout' = Thrown(StreamEndedError)
          /\ wpc' = "encode"
          /\ result' = <<>>
          /\ isError' = FALSE
          /\ UNCHANGED stdout
  /\ UNCHANGED <<fvars, sab, inbox, wreq, varCounter, readerReleased,
                 writerClosed, nDone, stdin, eof, prod, conform, wrote>>
  /\ UNCHANGED hvars
  /\ UNCHANGED pvars

\* As Release, but the lock on the output reader is kept.
ReleaseSkipped ==
  /\ ~terminated
  /\ wpc = "release"
  /\ wpc' = "close"
  /\ UNCHANGED <<fvars, sab, inbox, wreq, result, isError, wout, varCounter,
                 readerReleased, writerClosed, nDone, cvars, wrote>>
  /\ UNCHANGED hvars
  /\ UNCHANGED pvars

\* dispose, line 118
Release ==
  /\ ~terminated
  /\ wpc = "release"
  /\ readerReleased' = TRUE
  /\ wpc' = "close"
  /\ UNCHANGED <<fvars, sab, inbox, wreq, result, isError, wout, varCounter,
                 writerClosed, nDone, cvars, wrote>>
  /\ UNCHANGED hvars
  /\ UNCHANGED pvars

\* dispose, line 119: close() rejects on a closed writer, and may reject
\* once the child is gone
Close ==
  /\ ~terminated
  /\ wpc = "close"
  /\ \/ /\ ~writerClosed
        /\ writerClosed' = TRUE
        /\ wpc' = "exit"
        /\ UNCHANGED wout
     \/ /\ writerClosed \/ eof
        /\ wout' = Thrown(PlainError(<<"The stream is closed or errored">>))
        /\ wpc' = "encode"
        /\ UNCHANGED writerClosed
  /\ UNCHANGED <<fvars, sab, inbox, wreq, result, isError, varCounter,
                 readerReleased, nDone, cvars, wrote>>
  /\ UNCHANGED hvars
  /\ UNCHANGED pvars

\* dispose, line 120, and onmessage line 141: the child is killed if it
\* still runs, and its exit awaited
AwaitExit ==
  /\ ~terminated
  /\ wpc = "exit"
  /\ eof' = TRUE
  /\ wout' = Returned(<<"disposed">>)
  /\ wpc' = "encode"
  /\ UNCHANGED <<fvars, sab, inbox, wreq, result, isError, varCounter,
                 readerReleased, writerClosed, nDone, stdin, stdout, prod,
                 conform, wrote>>
  /\ UNCHANGED hvars
  /\ UNCHANGED pvars

\* The region a store of the handler lands in: the caller's, as long as the
\* caller still holds the region this message carried.
StoreIn(region, field, value) ==
  IF wreq.sab = region.id THEN [region EXCEPT ![field] = value] ELSE region

\* onmessage, lines 157-158 and 193-197: payload and terminator
WritePayload ==
  /\ ~terminated
  /\ wpc = "encode"
  /\ sab' = StoreIn(StoreIn(sab, "payload", Response(wout).payload),
                    "written", TRUE)
  /\ wpc' = "status"
  /\ UNCHANGED <<fvars, inbox, wreq, result, isError, wout, varCounter,
                 readerReleased, writerClosed, nDone, cvars, wrote>>
  /\ UNCHANGED hvars
  /\ UNCHANGED pvars

\* As StoreStatus, but storing the done flag where the status belongs.
StoreStatusSignalsDone ==
  /\ ~terminated
  /\ wpc = "status"
  /\ sab' = StoreIn(sab, "done", 1)
  /\ nDone' = nDone + 1
  /\ wpc' = "signal"
  /\ UNCHANGED <<fvars, inbox, wreq, result, isError, wout, varCounter,
                 readerReleased, writerClosed, cvars, wrote>>
  /\ UNCHANGED hvars
  /\ UNCHANGED pvars

\* onmessage, lines 161 and 201: the status word
StoreStatus ==
  /\ ~terminated
  /\ wpc = "status"
  /\ sab' = StoreIn(sab, "status", Response(wout).status)
  /\ wpc' = "signal"
  /\ UNCHANGED <<fvars, inbox, wreq, result, isError, wout, varCounter,
                 readerReleased, writerClosed, nDone, cvars, wrote>>
  /\ UNCHANGED hvars
  /\ UNCHANGED pvars

\* onmessage, line 204: the done flag
StoreDone ==
  /\ ~terminated
  /\ wpc = "signal"
  /\ sab' = StoreIn(sab, "done", 1)
  /\ nDone' = nDone + 1
  /\ wpc' = "notify"
  /\ UNCHANGED <<fvars, inbox, wreq, result, isError, wout, varCounter,
                 readerReleased, writerClosed, cvars, wrote>>
  /\ UNCHANGED hvars
  /\ UNCHANGED pvars

\* As Notify, but a caller already waiting on the region is not woken.
NotifyWakesNobody ==
  /\ ~terminated
  /\ wpc = "notify"
  /\ wpc' = "idle"
  /\ UNCHANGED <<fvars, sab, inbox, wreq, result, isError, wout, varCounter,
                 readerReleased, writerClosed, nDone, cvars, wrote>>
  /\ UNCHANGED hvars
  /\ UNCHANGED pvars

\* onmessage, line 205: wake a caller waiting on this region
Notify ==
  /\ ~terminated
  /\ wpc = "notify"
  /\ fpc' = IF fpc = "blocked" /\ wreq.sab = sab.id THEN "decode" ELSE fpc
  /\ wpc' = "idle"
  /\ UNCHANGED <<freq, fres, nCalls, terminated, prev, sab, inbox, wreq,
                 result, isError, wout, varCounter, readerReleased,
                 writerClosed, nDone, cvars, wrote>>
  /\ UNCHANGED hvars
  /\ UNCHANGED pvars

\* ------------------------------------------------------------------- child
\* The interpreter reads a statement and the blank line after it and prints
\* one of the transcripts the protocol allows for them.  Once a textual form
\* outside the protocol has been printed, later values print in one line.
ChildEval ==
  /\ ~eof
  /\ stdin # <<>>
  /\ \E kind \in Kinds, shape \in Shapes, chatter, blankResult \in BOOLEAN :
       LET stmt == FirstLine(stdin) IN
       /\ kind = "none" => (shape = 1 /\ ~blankResult)
       /\ ~conform => (shape = 1 /\ ~chatter /\ ~blankResult)
       /\ stdin' = AfterFirstLine(AfterFirstLine(stdin))
       /\ stdout' = stdout
                    \o Transcript(stmt, kind, shape, chatter, blankResult)
       /\ prod' = <<[stmt |-> stmt, kind |-> kind,
                     text |-> Body(shape, stmt), chatter |-> chatter,
                     blankResult |-> blankResult]>>
       /\ conform' = (conform /\ (kind = "none"
                                    \/ Conforming(Body(shape, stmt))))
  /\ UNCHANGED <<fvars, sab, inbox, wvars, eof, wrote>>
  /\ UNCHANGED hvars
  /\ UNCHANGED pvars

\* The child exits: its output ends after the lines it got to print.
ChildExit ==
  /\ ~eof
  /\ wpc \in {"idle", "read", "close"}
  /\ eof' = TRUE
  /\ \E n \in 0..Len(stdout) : stdout' = SubSeq(stdout, 1, n)
  /\ UNCHANGED <<fvars, sab, inbox, wvars, stdin, prod, conform, wrote>>
  /\ UNCHANGED hvars
  /\ UNCHANGED pvars

Next ==
  \/ UnsafeExecute \/ CreateVar \/ Dispose \/ SendOther
  \/ Wait \/ Finish
  \/ Receive \/ ReadLine \/ Release \/ Close \/ AwaitExit
  \/ WritePayload \/ StoreStatus \/ StoreDone \/ Notify
  \/ ChildEval \/ ChildExit

Spec == Init /\ [][Next]_vars

\* ============================================================ handle layer
\* ------------------------------------------------ values and their JSON text
\* A JavaScript value the caller or the interpreter holds: its kind, the
\* characters (string), digits (number), keys (object) or source text
\* (function) in `s`, the elements or member values in `items`, and for a
\* handle its identity in `h`.
Num(digits) == [k |-> "number", s |-> <<digits>>, items |-> <<>>, h |-> 0]
Str(chars) == [k |-> "string", s |-> chars, items |-> <<>>, h |-> 0]
Arr(items) == [k |-> "array", s |-> <<>>, items |-> items, h |-> 0]
Obj(keys, items) == [k |-> "object", s |-> keys, items |-> items, h |-> 0]
Fn(source) == [k |-> "function", s |-> source, items |-> <<>>, h |-> 0]
Undefined == [k |-> "undefined", s |-> <<>>, items |-> <<>>, h |-> 0]
Null == [k |-> "null", s |-> <<>>, items |-> <<>>, h |-> 0]
HandleRef(i) == [k |-> "handle", s |-> <<>>, items |-> <<>>, h |-> i]

Quote == "\""
Digits == {"1", "2", "5"}

\* JSON.stringify(value) for the JSON-representable kinds; for undefined
\* it yields no string, and the template in createVar spells that
\* "undefined".
RECURSIVE Stringify(_)
RECURSIVE StringifyItems(_, _)
Stringify(v) ==
  CASE v.k = "number" -> v.s
    [] v.k = "string" -> <<Quote>> \o JsonEscape(v.s) \o <<Quote>>
    [] v.k = "array" -> <<"[">> \o StringifyItems(<<>>, v.items) \o <<"]">>
    [] v.k = "object" -> <<"{">> \o StringifyItems(v.s, v.items) \o <<"}">>
    [] v.k = "null" -> <<"null">>
    [] OTHER -> <<"undefined">>
StringifyItems(keys, items) ==
  IF items = <<>> THEN <<>>
  ELSE (IF keys = <<>> THEN <<>> ELSE <<Quote, Head(keys), Quote, ":">>)
       \o Stringify(Head(items))
       \o (IF Len(items) > 1 THEN <<",">> ELSE <<>>)
       \o StringifyItems(IF keys = <<>> THEN <<>> ELSE Tail(keys),
                         Tail(items))

ParseFail == [ok |-> FALSE, v |-> Undefined, rest |-> <<>>]

\* The characters of a string literal up to its closing quote.
RECURSIVE StringChars(_)
StringChars(t) ==
  IF t = <<>> \/ Head(t) = Quote THEN <<>>
  ELSE <<Head(t)>> \o StringChars(Tail(t))

\* JSON.parse, one value at the head of the text: white space is skipped
\* between tokens, a raw line feed or U+0000 inside a string literal is a
\* SyntaxError, and so is anything that is no JSON value.
RECURSIVE ParseValue(_)
RECURSIVE ParseMembers(_, _, _, _)
ParseValue(text) ==
  LET t == TrimStart(text) IN
  IF t = <<>> THEN ParseFail
  ELSE IF Head(t) \in Digits
  THEN [ok |-> TRUE, v |-> Num(Head(t)), rest |-> Tail(t)]
  ELSE IF Head(t) = "null"
  THEN [ok |-> TRUE, v |-> Null, rest |-> Tail(t)]
  ELSE IF Head(t) = Quote
  THEN LET c == StringChars(Tail(t)) IN
       IF Len(c) + 2 > Len(t) \/ Includes(c, LF) \/ Includes(c, NUL)
       THEN ParseFail
       ELSE [ok |-> TRUE, v |-> Str(JsonUnescape(c)),
             rest |-> SubSeq(t, Len(c) + 3, Len(t))]
  ELSE IF Head(t) \in {"[", "{"}
  THEN LET close == IF Head(t) = "[" THEN "]" ELSE "}"
           inner == TrimStart(Tail(t)) IN
       IF inner # <<>> /\ Head(inner) = close
       THEN [ok |-> TRUE,
             v |-> IF close = "]" THEN Arr(<<>>) ELSE Obj(<<>>, <<>>),
             rest |-> Tail(inner)]
       ELSE ParseMembers(inner, close = "}", <<>>, <<>>)
  ELSE ParseFail
ParseMembers(text, isObj, keys, items) ==
  LET t == TrimStart(text)
      keyOk == Len(t) >= 4 /\ t[1] = Quote /\ t[3] = Quote /\ t[4] = ":"
      m == ParseValue(IF isObj THEN SubSeq(t, 5, Len(t)) ELSE t)
      after == TrimStart(m.rest)
      ks == IF isObj THEN Append(keys, t[2]) ELSE keys
      its == Append(items, m.v)
  IN
  IF isObj /\ ~keyOk THEN ParseFail
  ELSE IF ~m.ok \/ after = <<>> THEN ParseFail
  ELSE IF Head(after) = "," THEN ParseMembers(Tail(after), isObj, ks, its)
  ELSE IF Head(after) = (IF isObj THEN "}" ELSE "]")
  THEN [ok |-> TRUE, v |-> IF isObj THEN Obj(ks, its) ELSE Arr(its),
        rest |-> Tail(after)]
  ELSE ParseFail

\* JSON.parse(output): ok = FALSE stands for the SyntaxError
JsonParseValue(text) ==
  LET r == ParseValue(text) IN
  IF r.ok /\ TrimStart(r.rest) = <<>> THEN r ELSE ParseFail

\* ------------------------------------------------ the interpreter's answers
\* What the interpreter does with one submission: `kind` is "ok" (a
\* success line), "err" (an error line) or "none" (nothing is submitted to
\* it); `text` is the textual form after the marker and `bind` the
\* declaration that took effect.  The interpreter stays running here; its
\* exit is part of Spec.
Answer(kind, text, bind) == [kind |-> kind, text |-> text, bind |-> bind]
NoAnswer == Answer("none", <<>>, {})

\* Values an expression composed by the handle layer may evaluate to in
\* the interpreter: a number, a function whose source prints over several
\* lines, and a function whose source holds a U+0000.
RemoteValues ==
  { Num("5"),
    Fn(<<"function Error() {", LF, "    [native code]", LF, "}">>),
    Fn(<<"function f() { return '", NUL, "' }">>) }

\* Error texts: one line, and one with a prompt line and a success line
\* inside it.
ErrorTexts ==
  { <<"Error: x">>, <<"Error: x", LF, PROMPT, "b", LF, OKMARK, "c">> }

\* The JSON text of a value laid out over several lines.
RECURSIVE Spread(_)
Spread(t) ==
  IF t = <<>> THEN <<>>
  ELSE (IF Head(t) = "," THEN <<",", LF, SP>> ELSE <<Head(t)>>)
       \o Spread(Tail(t))

\* Textual forms the interpreter prints for a value: the JSON text of a
\* JSON-representable value, on one line or several; the source of a
\* function.
TextualForms(v) ==
  IF v.k = "function" THEN {v.s}
  ELSE {Stringify(v), Spread(Stringify(v))}

\* `const name = expr`, as createVar composes it
IsDeclaration(code) ==
  /\ Len(code) >= 7
  /\ code[1] = "const" /\ code[2] = SP /\ code[4] = SP
  /\ code[5] = "=" /\ code[6] = SP
DeclaredName(code) == code[3]
DeclaredExpr(code) == SubSeq(code, 7, Len(code))

IsBound(st, name) == \E b \in st.bound : b.name = name
ValueOf(st, name) == (CHOOSE b \in st.bound : b.name = name).val

\* The answers the interpreter of a session may give to a statement.  A
\* declaration whose expression is a JSON literal takes effect with the
\* value of the literal; any other declaration takes effect with some
\* value or fails; a declared name prints a textual form of its value; the
\* global object prints a form that is no JSON; anything else fails.
Answers(st, code) ==
  IF IsDeclaration(code)
  THEN LET e == JsonParseValue(DeclaredExpr(code)) IN
       IF e.ok
       THEN { Answer("ok", <<"undefined">>,
                     {[name |-> DeclaredName(code), val |-> e.v]}) }
       ELSE { Answer("ok", <<"undefined">>,
                     {[name |-> DeclaredName(code), val |-> v]})
                : v \in RemoteValues }
            \cup { Answer("err", t, {}) : t \in ErrorTexts }
  ELSE IF Len(code) = 1 /\ IsBound(st, code[1])
  THEN { Answer("ok", t, {}) : t \in TextualForms(ValueOf(st, code[1])) }
  ELSE IF code = <<"globalThis">>
  THEN { Answer("ok", <<"[object GlobalObject]">>, {}) }
  ELSE { Answer("err", t, {}) : t \in ErrorTexts }

\* The lines the interpreter prints for a submission: the echo, the marked
\* result with its continuation lines, the next prompt.
Printed(code, answer) ==
  << <<PROMPT>> \o code >>
  \o (CASE answer.kind = "ok" ->
             SplitLines(<<OKMARK>> \o answer.text, <<>>) \o << <<PROMPT>> >>
        [] answer.kind = "err" ->
             SplitLines(<<ERRMARK>> \o answer.text, <<>>) \o << <<PROMPT>> >>
        [] OTHER -> <<>>)

\* ------------------------------------------- one call through the bridge
\* execute's read loop (part_000, lines 62-114) run to its end over the
\* lines available to it: the outcome and the lines left unread.  The
\* lines run out only when the output has ended.
RECURSIVE Drain(_, _, _)
Drain(res, isErr, lines) ==
  IF lines = <<>>
  THEN [out |-> Thrown(StreamEndedError), rest |-> <<>>]
  ELSE LET s == LineStep(res, isErr, Head(lines)) IN
       IF s.end = "continue"
       THEN Drain(s.result, s.isError, Tail(lines))
       ELSE [out |-> IF s.end = "return" THEN Returned(s.result[1])
                     ELSE Thrown(ReplExecutionError(s.result[1])),
             rest |-> Tail(lines)]

\* The statement execute writes for a request: createVar's declaration
\* under the next name, or the code itself; trimmed.
StatementOf(st, type, data) ==
  Trim(IF type = "createVar"
       THEN Declaration(VarName(st.varCounter), data) ELSE data)

\* What may come back for a request: nothing is submitted for multi-line
\* code.
CallAnswers(st, type, data) ==
  IF Includes(StatementOf(st, type, data), LF) THEN {NoAnswer}
  ELSE Answers(st, StatementOf(st, type, data))

\* #sendMessage(type, data) as one step, the caller being blocked for all of
\* it: the worker's createVar or execute on the session `st` with the
\* interpreter giving `answer`, the response written by the handler and
\* decoded by the foreground.  Yields the session afterwards, the outcome
\* inside the worker and the outcome at the caller.
Call(st, type, data, answer) ==
  LET code == StatementOf(st, type, data)
      submitted == ~Includes(code, LF)
      d == Drain(<<>>, FALSE, st.unread \o Printed(code, answer))
      worker ==
        IF Includes(code, LF) THEN Thrown(MultiLineCodeError)
        ELSE IF type = "createVar" /\ ~d.out.thrown
        THEN Returned(<<VarName(st.varCounter)>>)
        ELSE d.out
  IN
  [remote |->
     [varCounter |-> IF type = "createVar" THEN st.varCounter + 1
                     ELSE st.varCounter,
      unread |-> IF submitted THEN d.rest ELSE st.unread,
      bound |-> IF submitted THEN st.bound \cup answer.bind ELSE st.bound,
      conform |-> st.conform /\ Conforming(answer.text)],
   request |-> [type |-> type, data |-> data],
   worker |-> worker,
   outcome |-> Decode(Response(worker).status, Response(worker).payload)]

\* ----------------------------------------------------------------- handles
\* A handle: the three symbol-keyed fields #handle and the get trap set on
\* the proxied function.  thisContext is <<>> when the field is not set.
Handle(session, varName, thisContext) ==
  [session |-> session, varName |-> varName, thisContext |-> thisContext]

\* typeof value
TypeOf(v) ==
  CASE v.k \in {"function", "handle"} -> "function"
    [] v.k \in {"array", "object", "null"} -> "object"
    [] OTHER -> v.k

\* `sessionSymbol in value` throws a TypeError when value is no object.
InRaises(v) == TypeOf(v) \notin {"function", "object"} \/ v.k = "null"

\* As OwnsOutcome, without the test of typeof.
OwnsOutcomeUntyped(session, v) ==
  IF InRaises(v) THEN "TypeError"
  ELSE IF v.k # "handle" THEN "false"
  ELSE IF handles[v.h].session = session THEN "true" ELSE "false"

\* owns(handle), lines 150-154: "true", "false", or the error it raises
OwnsOutcome(session, v) ==
  IF TypeOf(v) # "function" THEN "false"
  ELSE IF InRaises(v) THEN "TypeError"
  ELSE IF v.k # "handle" THEN "false"
  ELSE IF handles[v.h].session = session THEN "true" ELSE "false"

Owns(session, v) == OwnsOutcome(session, v) = "true"

\* Outcomes of a call of the API.
GaveHandle(i) == [kind |-> "handle", v |-> HandleRef(i)]
GaveValue(v) == [kind |-> "value", v |-> v]
Raised(err) == [kind |-> "throw", err |-> err]

TypeError(message) ==
  [name |-> "TypeError", message |-> message, error |-> <<>>]

NotSerializableError(message, originalOutput) ==
  [name |-> "NotSerializableError", message |-> message, error |-> <<>>,
   originalOutput |-> originalOutput]

\* Bounds of the handle layer: calls of the API in a run.
MaxOps == 3

\* Values a caller passes in: JSON-representable ones (a string with a line
\* feed and a U+0000, an object holding an array and null), a function on
\* one line and one whose source spans two, and every handle created so far.
JsonInputs ==
  { Num("5"), Str(<<"a", LF, NUL>>),
    Obj(<<"k">>, <<Arr(<<Num("1"), Null>>)>>) }
PlainInputs ==
  JsonInputs \cup { Fn(<<"x => x">>), Fn(<<"function f() {", LF, "}">>) }
HandleRefs == { HandleRef(i) : i \in 1..Len(handles) }
CallerValues == PlainInputs \cup HandleRefs
Props == {"x"}

\* value.toString() of a function; of a proxied function (a handle of some
\* session) it is the native-code form.
ToSource(v) ==
  IF v.k = "handle" THEN <<"function () { [native code] }">> ELSE v.s

\* The record of a call that went through the bridge once.
Through(op, session, arg, c, out) ==
  [op |-> op, session |-> session, arg |-> arg,
   sent |-> <<[session |-> session, type |-> c.request.type,
               data |-> c.request.data]>>,
   out |-> <<out>>, bridge |-> <<c.worker>>]

\* The record of a call that sent nothing.
Locally(op, session, arg, out) ==
  [op |-> op, session |-> session, arg |-> arg, sent |-> <<>>,
   out |-> <<out>>, bridge |-> <<>>]

\* ------------------------------------------------------ calls of the API
\* One call of the API is one step; MaxOps bounds the calls of a run.
Begin ==
  /\ nOps < MaxOps
  /\ nOps' = nOps + 1
  /\ UNCHANGED bvars

\* As MintHandle, but a handle on the name is made also when #createVar
\* throws.
MintHandleRegardless(op, session, arg, expression, thisContext) ==
  \E answer \in CallAnswers(remote[session], "createVar", expression) :
  \E c \in {Call(remote[session], "createVar", expression, answer)} :
    /\ remote' = [remote EXCEPT ![session] = c.remote]
    /\ handles' = Append(handles,
                         Handle(session,
                                <<VarName(remote[session].varCounter)>>,
                                thisContext))
    /\ last' = Through(op, session, arg, c, GaveHandle(Len(handles) + 1))

\* #createVar(expression) and then a handle on the name it returned (lines
\* 95-104, 122-124, 166-167); no handle when #createVar throws.
MintHandle(op, session, arg, expression, thisContext) ==
  \E answer \in CallAnswers(remote[session], "createVar", expression) :
  \E c \in {Call(remote[session], "createVar", expression, answer)} :
    /\ remote' = [remote EXCEPT ![session] = c.remote]
    /\ IF c.outcome.thrown
       THEN /\ handles' = handles
            /\ last' = Through(op, session, arg, c, Raised(c.outcome.err))
       ELSE /\ handles' = Append(handles,
                                 Handle(session, c.outcome.text, thisContext))
            /\ last' = Through(op, session, arg, c,
                               GaveHandle(Len(handles) + 1))

\* get globalThis, lines 197-199
GlobalThis(session) ==
  /\ Begin
  /\ handles' = Append(handles, Handle(session, <<"globalThis">>, <<>>))
  /\ last' = Locally("globalThis", session, <<>>,
                     GaveHandle(Len(handles) + 1))
  /\ UNCHANGED remote

\* owns(handle), lines 150-154
OwnsCall(session, v) ==
  /\ Begin
  /\ last' = Locally("owns", session, <<v>>,
                     [kind |-> OwnsOutcome(session, v)])
  /\ UNCHANGED <<remote, handles>>

\* As Wrap, but a string is put between quotes as it is, without the
\* escapes of JSON.stringify.
WrapUnescaped(session, v) ==
  /\ Begin
  /\ IF Owns(session, v)
     THEN /\ last' = Locally("wrap", session, <<v>>, GaveHandle(v.h))
          /\ UNCHANGED <<remote, handles>>
     ELSE MintHandle("wrap", session, <<v>>,
                     IF TypeOf(v) = "function"
                     THEN <<"(">> \o ToSource(v) \o <<")">>
                     ELSE IF v.k = "string"
                     THEN <<Quote>> \o v.s \o <<Quote>>
                     ELSE Stringify(v),
                     <<>>)

\* As Wrap, without the early return for a handle the session owns.
WrapAlwaysDeclares(session, v) ==
  /\ Begin
  /\ MintHandle("wrap", session, <<v>>,
                IF TypeOf(v) = "function"
                THEN <<"(">> \o ToSource(v) \o <<")">>
                ELSE Stringify(v),
                <<>>)

\* wrap(value), lines 156-168
Wrap(session, v) ==
  /\ Begin
  /\ IF Owns(session, v)
     THEN /\ last' = Locally("wrap", session, <<v>>, GaveHandle(v.h))
          /\ UNCHANGED <<remote, handles>>
     ELSE MintHandle("wrap", session, <<v>>,
                     IF TypeOf(v) = "function"
                     THEN <<"(">> \o ToSource(v) \o <<")">>
                     ELSE Stringify(v),
                     <<>>)

\* The get trap for a string key, lines 87-105: the new handle keeps the
\* variable of the handle it was read from as its this-context.
GetProp(h, prop) ==
  /\ Begin
  /\ MintHandle("get", handles[h].session, <<HandleRef(h)>>,
                <<"Reflect.get(">> \o handles[h].varName \o <<", ">>
                  \o Stringify(Str(<<prop>>)) \o <<")">>,
                <<handles[h].varName>>)

\* args.map(...) of the apply trap, lines 111-116: the variable of an owned
\* handle, else JSON.stringify(arg), which is undefined (and joins as the
\* empty string) for a function and for undefined.
ArgString(session, v) ==
  IF Owns(session, v) THEN handles[v.h].varName
  ELSE IF TypeOf(v) \in {"function", "undefined"} THEN <<>>
  ELSE Stringify(v)

RECURSIVE JoinArgs(_, _)
JoinArgs(session, args) ==
  IF args = <<>> THEN <<>>
  ELSE ArgString(session, Head(args))
       \o (IF Len(args) > 1 THEN <<", ">> ELSE <<>>)
       \o JoinArgs(session, Tail(args))

\* As Apply, but the receiver is always `undefined`, whatever this-context
\* the handle carries.
ApplyUnbound(h, args) ==
  /\ Begin
  /\ MintHandle("apply", handles[h].session, <<HandleRef(h)>>,
                <<"Reflect.apply(">> \o handles[h].varName
                  \o <<", ", "undefined", ", [">>
                  \o JoinArgs(handles[h].session, args) \o <<"])">>,
                <<>>)

\* The apply trap, lines 106-125
Apply(h, args) ==
  /\ Begin
  /\ MintHandle("apply", handles[h].session, <<HandleRef(h)>>,
                <<"Reflect.apply(">> \o handles[h].varName \o <<", ">>
                  \o (IF handles[h].thisContext = <<>> THEN <<"undefined">>
                      ELSE handles[h].thisContext[1])
                  \o <<", [">> \o JoinArgs(handles[h].session, args)
                  \o <<"])">>,
                <<>>)

\* unwrap past the ownership test: unsafeExecute(varName), then
\* JSON.parse of the output (lines 177-190).
Fetch(session, v) ==
  \E answer \in CallAnswers(remote[session], "execute", handles[v.h].varName) :
  \E c \in {Call(remote[session], "execute", handles[v.h].varName, answer)} :
    LET parsed == JsonParseValue(c.outcome.text) IN
    /\ remote' = [remote EXCEPT ![session] = c.remote]
    /\ handles' = handles
    /\ last' = Through("unwrap", session, <<v>>, c,
                 IF c.outcome.thrown THEN Raised(c.outcome.err)
                 ELSE IF parsed.ok THEN GaveValue(parsed.v)
                 ELSE Raised(NotSerializableError(
                                <<"Value is not JSON serializable">>,
                                c.outcome.text)))

\* As Unwrap, without the ownership test: a handle of any session is read
\* in this one.
UnwrapUnchecked(session, v) ==
  /\ Begin
  /\ IF v.k = "handle" THEN Fetch(session, v)
     ELSE /\ last' = Locally("unwrap", session, <<v>>,
                       Raised(TypeError(
                         <<"Handle does not belong to this session">>)))
          /\ UNCHANGED <<remote, handles>>

\* unwrap(handle), lines 171-191
Unwrap(session, v) ==
  /\ Begin
  /\ IF Owns(session, v) THEN Fetch(session, v)
     ELSE /\ last' = Locally("unwrap", session, <<v>>,
                       Raised(TypeError(
                         <<"Handle does not belong to this session">>)))
          /\ UNCHANGED <<remote, handles>>

\* Arguments of a call through a handle: none, or the first handle made, a
\* number and undefined.
ArgLists ==
  { <<>>, <<HandleRef(1), Num("5"), Undefined>> }

ProxyNext ==
  \/ \E s \in Sessions : GlobalThis(s)
  \/ \E s \in Sessions, v \in {Num("5")} \cup HandleRefs : OwnsCall(s, v)
  \/ \E s \in Sessions, v \in CallerValues : Wrap(s, v)
  \/ \E s \in Sessions, v \in {Num("5")} \cup HandleRefs : Unwrap(s, v)
  \/ \E h \in 1..Len(handles), prop \in Props : GetProp(h, prop)
  \/ \E h \in 1..Len(handles), args \in ArgLists : Apply(h, args)

ProxySpec == Init /\ [][ProxyNext]_vars

\* ---------------------------------------------------------------- fairness
\* Spec with the scheduling the runtime gives: the foreground thread runs
\* on once its wait is over, the worker's event loop takes the next message
\* and runs each continuation of the handler that is ready, and the
\* interpreter answers every submission it has been handed.  Nothing obliges
\* the caller to issue a call or the child to exit.
Fairness ==
  /\ WF_vars(Wait) /\ WF_vars(Finish)
  /\ WF_vars(Receive) /\ WF_vars(ReadLine)
  /\ WF_vars(Release) /\ WF_vars(Close) /\ WF_vars(AwaitExit)
  /\ WF_vars(WritePayload) /\ WF_vars(StoreStatus)
  /\ WF_vars(StoreDone) /\ WF_vars(Notify)
  /\ WF_vars(ChildEval)

FairSpec == Spec /\ Fairness

\* ================================================================== claims
\* The request of the call in progress is a single-line execute.
SingleLineExecute(req) ==
  req.type = "execute" /\ ~Includes(Trim(req.data), LF)

\* The bridge call of the request being handled has just returned or thrown.
BridgeEnded == wpc = "encode" /\ wreq.sab = nCalls

\* What the bridge hands back is what the child printed for the statement
\* of this very request: the value after a success marker, the error text
\* after an error marker.
OwnResult ==
  /\ prod # <<>>
  /\ prod[1].stmt = Trim(wreq.data)
  /\ ~wout.thrown => prod[1].kind = "ok" /\ wout.text = prod[1].text
  /\ wout.thrown =>
       prod[1].kind = "err" /\ wout.err.error = prod[1].text

ReturnedOrReplError ==
  ~wout.thrown \/ wout.err.name = "ReplExecutionError"

\* C1: against an interpreter within the line protocol, every single-line
\* execute hands back the result text of its own statement, and when it
\* ends no line printed for it (echo, result, continuations, output of the
\* blank submission) is left for the next call to read.
C1_SequentialCallsOwnResult ==
  (BridgeEnded /\ SingleLineExecute(wreq) /\ conform /\ ReturnedOrReplError)
    => (OwnResult /\ stdout = <<>> /\ stdin = <<>>)

\* C1 witness: the third call returns its own value "2" to the caller,
\* after a call that returned and with the blank submission's result and
\* console chatter among the lines printed for it.
C1_Witness ==
  /\ fpc = "idle" /\ nCalls = 3 /\ prev = "ok" /\ conform
  /\ SingleLineExecute(freq)
  /\ fres = Returned(<<"2">>)
  /\ prod # <<>> /\ prod[1].text = <<"2">>
  /\ prod[1].blankResult /\ prod[1].chatter

\* The caller's request trims to code with an inner line feed.
MultiLine(req) == Includes(Trim(req.data), LF)

\* C2: an execute whose trimmed code contains a line feed writes nothing to
\* the child and fails at the caller with MultiLineCodeError; the
\* single-line execute that follows it hands back the result of its own
\* statement (an interpreter within the line protocol, as in C1).
C2_MultiLineRejectedBeforeWrite ==
  /\ (freq.type = "execute" /\ MultiLine(freq)) =>
       /\ ~wrote
       /\ (fpc = "idle" /\ fres # Pending) => fres = Thrown(MultiLineCodeError)
  /\ (prev = "MultiLineCodeError" /\ BridgeEnded /\ SingleLineExecute(wreq)
        /\ conform /\ ReturnedOrReplError)
       => (OwnResult /\ stdout = <<>>)

\* C2 witness: a call rejected for its line feed is followed by a
\* single-line execute that returns its own value.
C2_Witness ==
  /\ fpc = "idle" /\ prev = "MultiLineCodeError" /\ ~eof
  /\ SingleLineExecute(freq)
  /\ fres = Returned(<<"2">>)
  /\ prod # <<>> /\ prod[1].stmt = <<"2">>

\* The caller holds the outcome of a call whose bridge outcome is wout.
CallEnded == fpc = "idle" /\ fres # Pending /\ wreq.sab = nCalls

\* C3: when the bridge throws ReplExecutionError with the captured text
\* (and the serialized error fits the region), the caller gets a
\* ReplExecutionError whose error text is exactly that captured text.
C3_ReplErrorTextUnchanged ==
  (CallEnded /\ wout.thrown /\ wout.err.name = "ReplExecutionError"
     /\ EncodedLength(ErrorJson(wout.err)) < RESULT_BUFFER_SIZE)
    => /\ fres.thrown
       /\ fres.err.name = "ReplExecutionError"
       /\ fres.err.error = wout.err.error

\* C4: for a result the bridge returned, with L its encoded length: L at or
\* above the capacity fails the call with BufferOverflowError whose message
\* states L and the capacity; below it the caller receives exactly the text.
C4_ExactTextOrOverflow ==
  (CallEnded /\ ~wout.thrown)
    => IF EncodedLength(wout.text) >= RESULT_BUFFER_SIZE
       THEN /\ fres.thrown
            /\ fres.err.name = "BufferOverflowError"
            /\ Includes(fres.err.message, ToString(EncodedLength(wout.text)))
            /\ Includes(fres.err.message, ToString(RESULT_BUFFER_SIZE))
       ELSE fres = Returned(wout.text)

ReadsBeforeResult ==
  /\ wpc = "read" /\ result = <<>> /\ ~readerReleased
  /\ stdout # <<>> /\ stdout' = Tail(stdout) /\ eof' = eof
  /\ ~StartsWith(Head(stdout), OKMARK)
  /\ ~StartsWith(Head(stdout), ERRMARK)

\* C6: a line read before a result is captured that begins with neither
\* result marker (chatter, prompt, echo) captures nothing and does not end
\* the call, and the text execute returns holds none of it.
C6_LinesBeforeResultSkipped ==
  /\ [][ReadsBeforeResult => (wpc' = "read" /\ result' = <<>>)]_vars
  /\ [](BridgeEnded /\ wreq.type = "execute" /\ conform
          /\ ReturnedOrReplError
        => LET t == IF wout.thrown THEN wout.err.error ELSE wout.text IN
           ~Includes(t, "hi") /\ ~StartsWith(t, PROMPT))

\* C6 witness: the call returned the bare value although chatter and echo
\* lines were printed before the result line.
C6_Witness ==
  /\ BridgeEnded /\ wreq.type = "execute"
  /\ wout = Returned(<<"2">>)
  /\ prod # <<>> /\ prod[1].chatter /\ prod[1].text = <<"2">>

\* C7: an error of the taxonomy thrown in the background (and whose
\* serialized form fits the region) reaches the caller as the same member.
C7_SameTaxonomyMember ==
  (CallEnded /\ wout.thrown /\ wout.err.name \in JXAErrorNames
     /\ EncodedLength(ErrorJson(wout.err)) < RESULT_BUFFER_SIZE)
    => (fres.thrown /\ fres.err.name = wout.err.name)

RecoverableFailure(name) ==
  name \in {"ReplExecutionError", "BufferOverflowError"}

\* C8 as claimed: once a call failed with ReplExecutionError or with
\* BufferOverflowError nothing printed for it is left unread, and the next
\* single-line execute hands back the result of its own statement.
C8_UsableAfterFailure ==
  /\ (CallEnded /\ RecoverableFailure(OutcomeName(fres)))
       => stdout = <<>>
  /\ (RecoverableFailure(prev) /\ BridgeEnded /\ SingleLineExecute(wreq)
        /\ ReturnedOrReplError)
       => OwnResult

\* C8 amended: the same, for an interpreter whose textual forms have no
\* line after the first that begins with a marker.
C8_UsableAfterConformingFailure ==
  /\ (CallEnded /\ RecoverableFailure(OutcomeName(fres)) /\ conform)
       => (stdout = <<>> /\ stdin = <<>>)
  /\ (RecoverableFailure(prev) /\ BridgeEnded /\ SingleLineExecute(wreq)
        /\ ReturnedOrReplError /\ conform)
       => OwnResult

\* C8 witness: after a call that failed with ReplExecutionError the next
\* execute returns its own value.
C8_Witness ==
  /\ fpc = "idle" /\ prev = "ReplExecutionError" /\ conform
  /\ SingleLineExecute(freq)
  /\ fres = Returned(<<"2">>)
  /\ prod # <<>> /\ prod[1].stmt = <<"2">>

Handling ==
  wpc \in {"read", "release", "close", "exit", "encode", "status", "signal"}

\* C9: while a request is handled its done flag has not been stored; it is
\* stored once, after the payload with its terminator and a status of 1 or
\* 2, whatever the type of the request and whether the bridge call returned
\* or threw.
C9_DoneOnceAfterStatusAndPayload ==
  /\ sab.done = 1 => (sab.status \in {1, 2} /\ sab.written)
  /\ Handling => (nDone = 0 /\ (wreq.sab = sab.id => sab.done = 0))
  /\ wpc = "notify" => nDone = 1
  /\ (wpc = "idle" /\ wreq # NoRequest) => nDone = 1

\* C9 witness: a request of an unknown type has been answered: status 2,
\* payload written, done stored once.
C9_Witness ==
  /\ wpc = "notify" /\ wreq.type = "other" /\ wreq.sab = sab.id
  /\ sab.done = 1 /\ sab.status = 2 /\ sab.written /\ nDone = 1

\* C10: at most one request is posted and not yet signalled done; the
\* worker handles the request of the caller's current call and no other,
\* and a next request is posted only after the done flag of the one before.
C10_OneCallInFlight ==
  /\ Len(inbox) <= 1
  /\ inbox # <<>> =>
       /\ wpc \in {"idle", "notify"}
       /\ inbox[1].sab = nCalls
       /\ fpc \in {"posted", "blocked"}
  /\ Handling =>
       /\ inbox = <<>>
       /\ wreq.sab = nCalls
       /\ fpc \in {"posted", "blocked"}
  /\ fpc \in {"idle", "decode"} => (inbox = <<>> /\ ~Handling)

\* C10 witness: the caller is blocked on its second call while the worker
\* reads for it.
C10_Witness ==
  /\ fpc = "blocked" /\ nCalls = 2 /\ wpc = "read" /\ wreq.sab = 2
  /\ inbox = <<>> /\ sab.done = 0

\* C11: the worker is terminated only by a dispose whose request has had
\* its done flag stored and whose handler has finished; inside the request
\* the reader is released before the writer is closed, and the writer is
\* closed before the child's exit is awaited and "disposed" is returned.
C11_TerminateAfterDisposeDone ==
  /\ [][(~terminated /\ terminated') =>
          (/\ freq.type = "dispose" /\ wreq.sab = freq.sab
           /\ sab.id = freq.sab /\ sab.done = 1
           /\ wpc \in {"notify", "idle"})]_vars
  /\ [](/\ wpc = "close" => (wreq.type = "dispose" /\ readerReleased)
        /\ wpc = "exit" => (readerReleased /\ writerClosed)
        /\ writerClosed => readerReleased
        /\ (wreq.type = "dispose" /\ wout = Returned(<<"disposed">>))
             => (readerReleased /\ writerClosed /\ eof))

\* C11 witness: a dispose returned "disposed" to the caller and the worker
\* has been terminated after it.
C11_Witness ==
  /\ terminated /\ fpc = "idle" /\ freq.type = "dispose"
  /\ fres = Returned(<<"disposed">>)
  /\ sab.done = 1 /\ readerReleased /\ writerClosed /\ eof

\* C12: whatever calls came before it, the first dispose returns to the
\* caller with the child torn down and the worker terminated.
C12_FirstDisposeReleases ==
  (fpc = "idle" /\ freq.type = "dispose" /\ nDispose = 1 /\ fres # Pending)
    => (~fres.thrown /\ eof /\ terminated)

\* C16: the names createVar has minted are $0, $1, ... in the order of the
\* requests, pairwise distinct; a request whose statement failed has used up
\* its name all the same; and a createVar call that returns hands the
\* caller the name minted for it.
C16_NamesIncreaseNeverReused ==
  /\ \A i \in 1..Len(minted) : minted[i] = "$" \o ToString(i - 1)
  /\ \A i, j \in 1..Len(minted) : i # j => minted[i] # minted[j]
  /\ varCounter = Len(minted)
  /\ (CallEnded /\ freq.type = "createVar" /\ ~fres.thrown)
       => fres.text = <<minted[Len(minted)]>>

\* C16 witness: the third createVar returned $2 after a createVar that
\* failed.
C16_Witness ==
  /\ fpc = "idle" /\ freq.type = "createVar" /\ Len(minted) = 3
  /\ prev \in {"ReplExecutionError", "MultiLineCodeError", "Error"}
  /\ fres = Returned(<<"$2">>)

\* The serialized form of the error the bridge threw reaches the capacity.
OversizedError ==
  wout.thrown /\ EncodedLength(ErrorJson(wout.err)) >= RESULT_BUFFER_SIZE

\* C20: whatever the handler writes into the payload segment, the bytes and
\* the terminator after them fit the capacity; a thrown error whose
\* serialized form reaches the capacity arrives at the caller, who is
\* unblocked, as BufferOverflowError with that length in its message.
C20_PayloadWithinCapacity ==
  /\ sab.written => EncodedLength(sab.payload) + 1 <= RESULT_BUFFER_SIZE
  /\ (wreq.sab = sab.id /\ wpc = "status")
       => EncodedLength(Response(wout).payload) + 1 <= RESULT_BUFFER_SIZE
  /\ (OversizedError /\ wreq.sab = sab.id /\ wpc \in {"notify", "idle"})
       => sab.done = 1
  /\ (CallEnded /\ OversizedError)
       => /\ fres.thrown
          /\ fres.err.name = "BufferOverflowError"
          /\ Includes(fres.err.message,
                      ToString(EncodedLength(ErrorJson(wout.err))))

\* C20 witness: an error report over the capacity has been replaced and the
\* caller holds the BufferOverflowError.
C20_Witness ==
  /\ CallEnded /\ OversizedError /\ sab.written
  /\ fres.thrown /\ fres.err.name = "BufferOverflowError"

\* Values that are no handle, for the claims about owns and unwrap.
NonHandles ==
  PlainInputs \cup { Undefined, Null, Arr(<<>>) }

\* C13: a handle a session produced (through globalThis, wrap, a property
\* read or an invocation, however derived) is owned by that session and by
\* no other; owns is false for every value that is no handle, and it never
\* raises.
C13_OwnsIffProducedHere ==
  /\ \A s \in Sessions : \A i \in 1..Len(handles) :
       OwnsOutcome(s, HandleRef(i)) =
         (IF handles[i].session = s THEN "true" ELSE "false")
  /\ \A s \in Sessions : \A v \in NonHandles : OwnsOutcome(s, v) = "false"
  /\ (last.op # "none" /\ last.out[1].kind = "handle") =>
       /\ handles[last.out[1].v.h].session = last.session
       /\ \A s \in Sessions :
            Owns(s, last.out[1].v) <=> (s = last.session)
  /\ last.op = "owns" =>
       last.out[1].kind =
         (IF last.arg[1].k = "handle"
             /\ handles[last.arg[1].h].session = last.session
          THEN "true" ELSE "false")

\* owns was asked of another session's handle that came from a property
\* read, and said no.
C13_Witness ==
  /\ last.op = "owns"
  /\ last.arg[1].k = "handle"
  /\ handles[last.arg[1].h].thisContext # <<>>
  /\ handles[last.arg[1].h].session # last.session
  /\ last.out[1].kind = "false"

OwnershipViolation ==
  Raised(TypeError(<<"Handle does not belong to this session">>))

\* C14: unwrap of a value that is no handle owned by the session raises the
\* ownership violation, a TypeError outside the JXAError family, and changes
\* nothing: no request is sent, neither session (its counter, its bindings,
\* the lines its child has printed) changes, no handle is made, and the
\* bridge is left as it was.
C14_ForeignUnwrapChangesNothing ==
  [][(nOps' = nOps + 1 /\ last'.op = "unwrap"
        /\ ~Owns(last'.session, last'.arg[1]))
     => (/\ last'.out[1] = OwnershipViolation
         /\ last'.out[1].err.name \notin JXAErrorNames
         /\ last'.sent = <<>> /\ last'.bridge = <<>>
         /\ remote' = remote /\ handles' = handles
         /\ bvars' = bvars)]_vars

\* Session B was asked to unwrap a handle session A had made, after A had
\* declared a variable, and refused.
C14_Witness ==
  /\ last.op = "unwrap"
  /\ last.arg[1].k = "handle"
  /\ handles[last.arg[1].h].session # last.session
  /\ remote[handles[last.arg[1].h].session].varCounter > 0
  /\ last.out[1] = OwnershipViolation

\* C15: wrap of a handle the session already owns returns that very handle
\* and does nothing else: no createVar request is sent, no binding is made,
\* the variable counter stays, no new handle exists; so wrap(wrap(v)) is
\* the handle wrap(v) gave.
C15_WrapOfOwnedIsIdentity ==
  [][(nOps' = nOps + 1 /\ last'.op = "wrap"
        /\ Owns(last'.session, last'.arg[1]))
     => (/\ last'.out[1] = GaveHandle(last'.arg[1].h)
         /\ last'.sent = <<>> /\ last'.bridge = <<>>
         /\ remote' = remote /\ handles' = handles
         /\ bvars' = bvars)]_vars

\* A handle on a declared variable was wrapped again by its own session.
C15_Witness ==
  /\ last.op = "wrap"
  /\ last.arg[1].k = "handle"
  /\ handles[last.arg[1].h].session = last.session
  /\ handles[last.arg[1].h].varName = <<VarName(0)>>
  /\ last.out[1] = GaveHandle(last.arg[1].h)
  /\ remote[last.session].varCounter = 1

\* The handle names a variable its session's interpreter has declared.
NamesDeclared(i) ==
  IsBound(remote[handles[i].session], handles[i].varName[1])

IsRoot(i) == handles[i].varName = <<"globalThis">>

\* A failed createVar gives the caller the failure and no handle, and no
\* step changes a handle that exists.
HandlesOnlyOnSuccess ==
  [][/\ \A i \in 1..Len(handles) :
          Len(handles') >= i /\ handles'[i] = handles[i]
     /\ (nOps' = nOps + 1 /\ last'.op \in {"wrap", "get", "apply"}
           /\ last'.bridge # <<>> /\ last'.bridge[1].thrown)
        => (last'.out[1].kind = "throw" /\ handles' = handles)]_vars

\* C17 as stated: every handle other than the globalThis root names a
\* variable whose const statement succeeded in the interpreter.
C17_HandlesNameDeclared ==
  \A i \in 1..Len(handles) : ~IsRoot(i) => NamesDeclared(i)

\* C17, amended: with an interpreter that has kept to the line protocol in
\* the handle's session, every handle other than the globalThis root names
\* a declared variable; a failed createVar raises and makes no handle; and
\* the fields of an existing handle never change.
C17_HandlesNameDeclaredConforming ==
  /\ [](\A i \in 1..Len(handles) :
          (~IsRoot(i) /\ remote[handles[i].session].conform)
            => NamesDeclared(i))
  /\ HandlesOnlyOnSuccess

\* A property read failed in the interpreter and gave no handle, in a
\* session that holds a handle on a declared variable.
C17_Witness ==
  /\ last.op = "get"
  /\ last.out[1].kind = "throw"
  /\ last.out[1].err.name = "ReplExecutionError"
  /\ remote[last.session].conform
  /\ \E i \in 1..Len(handles) :
       ~IsRoot(i) /\ handles[i].session = last.session /\ NamesDeclared(i)

\* What unwrap is to give for the text the bridge returned.
UnwrapOf(text) ==
  IF JsonParseValue(text).ok THEN GaveValue(JsonParseValue(text).v)
  ELSE Raised(NotSerializableError(<<"Value is not JSON serializable">>,
                                   text))

\* C18: unwrap of an owned handle executes the handle's variable name as a
\* bare expression; when the bridge returns text, the caller gets the parsed
\* value if the text is JSON and otherwise NotSerializableError whose
\* originalOutput is exactly that text.
C18_UnwrapParsesOrReportsText ==
  (last.op = "unwrap" /\ last.sent # <<>>) =>
    /\ last.sent[1] = [session |-> last.session, type |-> "execute",
                       data |-> handles[last.arg[1].h].varName]
    /\ ~last.bridge[1].thrown =>
         last.out[1] = UnwrapOf(last.bridge[1].text)

\* A step that unwraps, in the same session, the handle the wrap just
\* before it returned for a JSON-representable value.
UnwrapsTheWrapped ==
  /\ last.op = "wrap" /\ last.arg[1] \in JsonInputs
  /\ last.out[1].kind = "handle"
  /\ nOps' = nOps + 1 /\ last'.op = "unwrap"
  /\ last'.session = last.session
  /\ last'.arg[1] = last.out[1].v

\* The interpreter of the session has kept to the line protocol.
InProtocol(st) == st.conform

\* C19 as stated: for every JSON-representable v, wrap(v) gives a handle
\* and unwrap of that handle in the same session gives a value deep-equal
\* to v.
C19_RoundTrip ==
  /\ []((last.op = "wrap" /\ last.arg[1] \in JsonInputs)
          => last.out[1].kind = "handle")
  /\ [][UnwrapsTheWrapped => last'.out[1] = GaveValue(last.arg[1])]_vars

\* C19, amended: the same, in a session whose interpreter has kept to the
\* line protocol up to and including the call.
C19_RoundTripInProtocol ==
  /\ []((last.op = "wrap" /\ last.arg[1] \in JsonInputs
           /\ InProtocol(remote[last.session]))
          => last.out[1].kind = "handle")
  /\ [][(UnwrapsTheWrapped /\ InProtocol(remote'[last.session]))
          => last'.out[1] = GaveValue(last.arg[1])]_vars

\* An object holding an array came back from unwrap as it went in, its
\* text having been printed over several lines.
C19_Witness ==
  /\ last.op = "unwrap"
  /\ last.out[1] = GaveValue(Obj(<<"k">>, <<Arr(<<Num("1"), Null>>)>>))
  /\ Includes(last.bridge[1].text, LF)
  /\ InProtocol(remote[last.session])

\* The receiver an invocation of handle i is to name.
ReceiverOf(i) ==
  IF handles[i].thisContext = <<>> THEN "undefined"
  ELSE handles[i].thisContext[1][1]

\* A step that is a property read or an invocation on a handle.
TrapStep == nOps' = nOps + 1 /\ last'.op \in {"get", "apply"}

CallInProgress ==
  /\ fpc # "idle"
  /\ freq.type \in {"execute", "createVar"}
  /\ nDispose = 0

\* C22: with an interpreter that answers every submission with a prompt
\* line (or whose output ends), every execute and createVar call on a
\* session that was not disposed returns or raises to the caller, whatever
\* the statement: also one that trims to nothing and one the interpreter
\* prints no result line for.
C22_CallsReturnOrRaise ==
  CallInProgress ~> (fpc = "idle")

\* The handler of the request the caller is waiting for has stored the done
\* flag and has yet to notify.
NotifyPending == wpc = "notify" /\ wreq.sab = sab.id

\* C23: the blocking handshake loses no wakeup and reads nothing stale.  A
\* caller that is blocked with the done flag already stored has its notify
\* still to come, and a wait entered after the flag was stored does not
\* block; when the caller reads the region after resuming, the flag is set,
\* the status is 1 or 2, and the payload is the whole payload the handler
\* of this very request wrote; the region changes only when it is allocated
\* and by stores of the handler of its own request.
C23_NoLostWakeupNoStaleRead ==
  /\ []((fpc = "blocked" /\ sab.done # 0) => NotifyPending)
  /\ []((fpc = "decode") =>
          /\ sab.id = freq.sab /\ wreq.sab = freq.sab
          /\ sab.done = 1 /\ sab.status \in {1, 2}
          /\ sab.written
          /\ sab.status = Response(wout).status
          /\ sab.payload = Response(wout).payload)
  /\ [][/\ (fpc = "posted" /\ sab.done # 0 /\ fpc' # "posted")
             => fpc' = "decode"
        /\ (sab' # sab) =>
             \/ (fpc = "idle" /\ fpc' = "posted" /\ sab'.id = sab.id + 1
                   /\ sab'.done = 0 /\ sab'.status = 0 /\ ~sab'.written)
             \/ (wreq.sab = sab.id /\ sab'.id = sab.id
                   /\ wpc \in {"encode", "status", "signal"})]_vars

\* The handler finished, notify included, before the caller began to wait:
\* the flag and a success status are stored and nobody was woken.
C23_Witness ==
  /\ fpc = "posted" /\ wpc = "idle"
  /\ sab.done = 1 /\ sab.status = 1
  /\ wreq.sab = sab.id
  /\ freq.type = "execute"

\* C24: a call issued after dispose has completed (the worker has been
\* terminated) returns or raises to the caller; the caller is not left
\* blocked on a done flag nobody will store.
C24_CallsAfterDisposeEnd ==
  (fpc # "idle" /\ terminated) ~> (fpc = "idle")


=============================================================================
